---------------------------- MODULE Spec2Model ----------------------------
(*************************************************************************)
(* A model of neuropythy/vision/cmag.py: the per-face and per-vertex     *)
(* differential magnification (cmag), the sub-mesh construction shared   *)
(* by path_cortical_magnification and isoangular_path, the mesh walk and *)
(* address/unaddress mapping of path_cortical_magnification, and the     *)
(* chain stitching and interpolation of isoangular_path.                 *)
(*                                                                       *)
(* Python indices start at 0 and TLA+ sequences at 1: vx[1], vx[2],      *)
(* vx[3] here are vx[0], vx[1], vx[2] of the source.  Real numbers are   *)
(* exact rationals <<n, d>> with d > 0 in lowest terms.                  *)
(*************************************************************************)
EXTENDS Integers, Sequences, FiniteSets, TLC

VARIABLES
    fpc, fmap, fsx, fvx, fres,      \* cmag, to = 'faces'
    vpc, vnv, vfaces, vdata, vres,  \* cmag, to = 'vertices'
    spc, smask, sang, secc, sres,   \* the sub-mesh construction
    ipc, imesh, iang, ival, iminseg, \* isoangular_path: the arguments
    itris, ivals, tadj, todo, seg, cls, iout,
    ppc, pmask, pth, return_all,    \* path_cortical_magnification: the arguments
    pmesh, edge_idx, tids, pidx, tid, pt, ss, steps,
    uidx, xidx, nfail, ss_vis, ss_srf, vis_steps, srf_steps, pres,
    npc, nvis, nidcs, nk, nres      \* neighborhood_cortical_magnification

faceVars == <<fpc, fmap, fsx, fvx, fres>>
vertVars == <<vpc, vnv, vfaces, vdata, vres>>
subVars == <<spc, smask, sang, secc, sres>>
isoVars == <<ipc, imesh, iang, ival, iminseg, itris, ivals, tadj, todo, seg, cls, iout>>
pathVars == <<ppc, pmask, pth, return_all, pmesh, edge_idx, tids, pidx, tid, pt, ss, steps,
              uidx, xidx, nfail, ss_vis, ss_srf, vis_steps, srf_steps, pres>>
neighVars == <<npc, nvis, nidcs, nk, nres>>
vars == <<fpc, fmap, fsx, fvx, fres, vpc, vnv, vfaces, vdata, vres,
          spc, smask, sang, secc, sres,
          ipc, imesh, iang, ival, iminseg, itris, ivals, tadj, todo, seg, cls, iout,
          ppc, pmask, pth, return_all, pmesh, edge_idx, tids, pidx, tid, pt, ss, steps,
          uidx, xidx, nfail, ss_vis, ss_srf, vis_steps, srf_steps, pres,
          npc, nvis, nidcs, nk, nres>>

-----------------------------------------------------------------------------
(* Exact rational arithmetic.                                              *)

Abs(n) == IF n < 0 THEN -n ELSE n

Sgn(n) == IF n > 0 THEN 1 ELSE IF n < 0 THEN -1 ELSE 0

\* The operators below bind their arguments as values before they use them
\* (CHOOSE over a set of one element), so that an argument that is itself
\* a long expression is evaluated once.
RECURSIVE Gcd(_, _)
Gcd(a, b) ==
    IF b = 0 THEN a ELSE CHOOSE g \in {Gcd(p[1], p[2]) : p \in {<<b, a % b>>}} : TRUE

ROf(p, g) == <<(Sgn(p[2]) * p[1]) \div g, (Sgn(p[2]) * p[2]) \div g>>

R(n, d) == CHOOSE r \in {ROf(p, Gcd(Abs(p[1]), Abs(p[2]))) : p \in {<<n, d>>}} : TRUE

RInt(n) == <<n, 1>>

RAddOf(x, y, g) == R(x[1] * (y[2] \div g) + y[1] * (x[2] \div g), (x[2] \div g) * y[2])

RAdd(x, y) ==
    CHOOSE r \in {RAddOf(p[1], p[2], Gcd(p[1][2], p[2][2])) : p \in {<<x, y>>}} : TRUE

RNeg(x) == <<-x[1], x[2]>>

RSub(x, y) == CHOOSE r \in {RAdd(x, RNeg(q)) : q \in {y}} : TRUE

RMulOf(x, y, g1, g2) ==
    IF x[1] = 0 \/ y[1] = 0 THEN <<0, 1>>
    ELSE <<(x[1] \div g1) * (y[1] \div g2), (x[2] \div g2) * (y[2] \div g1)>>

RMul(x, y) ==
    CHOOSE r \in {RMulOf(p[1], p[2], Gcd(Abs(p[1][1]), p[2][2]), Gcd(Abs(p[2][1]), p[1][2])) :
                     p \in {<<x, y>>}} : TRUE

RSq(x) == RMul(x, x)
RSign(x) == Sgn(x[1])
RLess(x, y) == x[1] * y[2] < y[1] * x[2]
RLeq(x, y) == x[1] * y[2] <= y[1] * x[2]
RZero == RInt(0)
ROne == RInt(1)
RHalf == R(1, 2)

\* +infinity: the value the source writes np.inf.  No rational equals it.
Inf == <<1, 0>>

\* neuropythy.util.zinv: 1/x where x is not (close to) zero, and 0 where it is.
zinv(x) == IF x[1] = 0 THEN RZero ELSE R(x[2], x[1])

\* The integer square root of a perfect square.
IsSquare(n) == \E k \in 0..n : k * k = n
Isqrt(n) == CHOOSE k \in 0..n : k * k = n

-----------------------------------------------------------------------------
(* cmag(mesh, retinotopy, to = 'faces'): one triangle.                     *)
(* A point is <<x, y>> with integer coordinates; a face is the sequence of *)
(* the coordinates of its three vertices in the order the face lists them. *)
(* rad_mag and tan_mag are carried as their squares (rad2, tan2), so that  *)
(* the last square root of the source is never taken and every value stays *)
(* rational; the other square roots are of perfect squares.               *)

MaxCoord == 4

Lattice == (0..MaxCoord) \X (0..MaxCoord)

\* sum((p - q)**2): the squared length of a side (line 73, before the sqrt).
Dist2(p, q) == (p[1] - q[1]) * (p[1] - q[1]) + (p[2] - q[2]) * (p[2] - q[2])

Cross(a, b, c) == (b[1] - a[1]) * (c[2] - a[2]) - (b[2] - a[2]) * (c[1] - a[1])

\* neuropythy.geometry.triangle_area: the (unsigned) area of triangle a, b, c.
triangle_area(a, b, c) == R(Abs(Cross(a, b, c)), 2)

\* The visual-field coordinates of the three vertices of a face, from the
\* surface coordinates: the retinotopy is the identity ("same"), the identity
\* with the x axis negated ("mirror"), or it gives the face's second vertex
\* the visual coordinate of its first ("collapse").
VisualMaps == {"same", "mirror", "collapse"}

VisualOf(sx, m) ==
    CASE m = "same"     -> sx
      [] m = "mirror"   -> [i \in 1..3 |-> <<-sx[i][1], sx[i][2]>>]
      [] m = "collapse" -> <<sx[1], sx[1], sx[3]>>

\* lines 73-78: the side lengths and the local frame of the face.
FaceSides2(sx) == <<Dist2(sx[2], sx[1]), Dist2(sx[3], sx[2]), Dist2(sx[1], sx[3])>>

FaceFrame(sx) ==
    LET s2     == FaceSides2(sx)
        s0_2   == s2[1]
        s1_2   == s2[2]
        s2_2   == s2[3]
        s0     == RInt(Isqrt(s0_2))
        s0_inv == zinv(s0)
        b      == RMul(RMul(RHalf, RInt(s0_2 - s1_2 + s2_2)), s0_inv)
        rad    == 2 * s0_2 * (s1_2 + s2_2) - s0_2 * s0_2 - (s1_2 - s2_2) * (s1_2 - s2_2)
        h      == RMul(RMul(RHalf, RInt(Isqrt(rad))), s0_inv)
    IN  [s0_inv |-> s0_inv, b |-> b, h |-> h, h_inv |-> zinv(h)]

\* lines 83-85: arl_mag = s_areas * zinv(v_areas).
ArealMag(s_area, v_area) == RMul(s_area, zinv(v_area))

\* lines 90-92: grad[a][c], a the local axis and c the visual coordinate.
FaceGrad(sx, vx) ==
    LET f        == FaceFrame(sx)
        dvx0_dfx == [c \in 1..2 |-> RMul(RInt(vx[3][c] - vx[2][c]), f.s0_inv)]
        dvx1_dfx == [c \in 1..2 |->
                        RMul(RSub(RInt(vx[1][c]),
                                  RAdd(RInt(vx[2][c]), RMul(f.b, dvx0_dfx[c]))),
                             f.h_inv)]
    IN  <<dvx0_dfx, dvx1_dfx>>

\* line 95: fsgn = sign(grad[0,0]*grad[1,1] - grad[0,1]*grad[1,0]).
FieldSign(grad) ==
    RSign(RSub(RMul(grad[1][1], grad[2][2]), RMul(grad[1][2], grad[2][1])))

\* lines 105-115: the squares of rad_mag and tan_mag.  drad_dvx[i]^2 is
\* x_i^2 * den_inv^2, and sum(drad_dvx[i]*grad[:,i], axis=0) adds grad[0][i]
\* and grad[1][i].
RadTanMag2(vx, grad) ==
    LET x0        == R(vx[1][1] + vx[2][1] + vx[3][1], 3)
        y0        == R(vx[1][2] + vx[2][2] + vx[3][2], 3)
        den_inv2  == zinv(RAdd(RSq(x0), RSq(y0)))
        drad_dvx2 == <<RMul(RSq(x0), den_inv2), RMul(RSq(y0), den_inv2)>>
        dtan_dvx2 == <<RMul(RSq(y0), den_inv2), RMul(RSq(x0), den_inv2)>>
        gsum2     == [i \in 1..2 |-> RSq(RAdd(grad[1][i], grad[2][i]))]
        drad2     == RAdd(RMul(drad_dvx2[1], gsum2[1]), RMul(drad_dvx2[2], gsum2[2]))
        dtan2     == RAdd(RMul(dtan_dvx2[1], gsum2[1]), RMul(dtan_dvx2[2], gsum2[2]))
    IN  [rad2 |-> zinv(drad2), tan2 |-> zinv(dtan2)]

\* lines 68-118: the result of cmag(..., to = 'faces') for one face.
CmagFace(sx, vx) ==
    LET grad == FaceGrad(sx, vx)
        rt   == RadTanMag2(vx, grad)
    IN  [radial2    |-> rt.rad2,
         tangential2 |-> rt.tan2,
         areal      |-> ArealMag(triangle_area(sx[1], sx[2], sx[3]),
                                 triangle_area(vx[1], vx[2], vx[3])),
         field_sign |-> FieldSign(grad),
         s_area     |-> triangle_area(sx[1], sx[2], sx[3]),
         v_area     |-> triangle_area(vx[1], vx[2], vx[3])]

NoResult == [none |-> TRUE]

VertIdle == vpc = "idle" /\ vnv = 0 /\ vfaces = <<>> /\ vdata = <<>> /\ vres = NoResult

SubIdle == spc = "idle" /\ smask = <<>> /\ sang = <<>> /\ secc = <<>> /\ sres = NoResult

IsoIdle ==
    /\ ipc = "idle" /\ imesh = <<>> /\ iang = <<>> /\ ival = <<>> /\ iminseg = 0
    /\ itris = <<>> /\ ivals = <<>> /\ tadj = <<>> /\ todo = {} /\ seg = <<>> /\ cls = <<>>
    /\ iout = NoResult

PathIdle ==
    /\ ppc = "idle" /\ pmask = <<>> /\ pth = <<>> /\ return_all = FALSE
    /\ pmesh = NoResult /\ edge_idx = <<>> /\ tids = <<>> /\ pidx = 0 /\ tid = 0
    /\ pt = <<>> /\ ss = <<>> /\ steps = <<>> /\ uidx = 0 /\ xidx = 0 /\ nfail = 0
    /\ ss_vis = <<>> /\ ss_srf = <<>> /\ vis_steps = <<>> /\ srf_steps = <<>>
    /\ pres = NoResult

NeighIdle == npc = "idle" /\ nvis = <<>> /\ nidcs = <<>> /\ nk = 0 /\ nres = <<>>

\* The faces whose first side has an integer length.
FaceInputs == {sx \in Lattice \X Lattice \X Lattice : IsSquare(Dist2(sx[2], sx[1]))}

FacesInit ==
    /\ fpc = "start"
    /\ fsx \in FaceInputs
    /\ fmap \in VisualMaps
    /\ fvx = VisualOf(fsx, fmap)
    /\ fres = NoResult
    /\ VertIdle
    /\ SubIdle
    /\ IsoIdle
    /\ PathIdle
    /\ NeighIdle

CmagFaces ==
    /\ fpc = "start"
    /\ fres' = CmagFace(fsx, fvx)
    /\ fpc' = "done"
    /\ UNCHANGED <<fmap, fsx, fvx>>
    /\ UNCHANGED <<vertVars, subVars, isoVars, pathVars, neighVars>>

FacesNext == CmagFaces

SpecFaces == FacesInit /\ [][FacesNext]_vars

\* C7: with to = 'faces', a triangle whose visual-field area is zero yields
\* the areal magnification +infinity when its surface area is not zero, and
\* 0 only when its surface area is zero as well.
C7_ZeroVisualAreaIsInfinite ==
    (fpc = "done" /\ fres.v_area = RZero) =>
        fres.areal = (IF fres.s_area # RZero THEN Inf ELSE RZero)

\* What line 85 yields instead: zinv maps the zero visual area to 0, and the
\* areal magnification of such a triangle is 0 whatever its surface area.
ZeroVisualAreaIsZero ==
    (fpc = "done" /\ fres.v_area = RZero) => fres.areal = RZero

\* C10: where the visual-field coordinate of every vertex is its surface
\* coordinate, every non-degenerate triangle has radial = tangential = areal
\* magnification = 1 and field sign +1, whatever the order of its vertices;
\* with one visual axis negated its field sign is -1.
C10_IdentityAndMirror ==
    (fpc = "done" /\ fres.s_area # RZero) =>
        /\ fmap = "same" =>
              /\ fres.radial2 = ROne
              /\ fres.tangential2 = ROne
              /\ fres.areal = ROne
              /\ fres.field_sign = 1
        /\ fmap = "mirror" => fres.field_sign = -1

\* What does hold of the identity and of its mirror image: the areal
\* magnification is 1, and the field sign is the winding of the face (+1 for
\* a face listed counter-clockwise under the identity), negated by the mirror.
IdentityArealAndWinding ==
    (fpc = "done" /\ fres.s_area # RZero /\ fmap \in {"same", "mirror"}) =>
        /\ fres.areal = ROne
        /\ fres.field_sign =
              Sgn(Cross(fsx[1], fsx[2], fsx[3])) * (IF fmap = "same" THEN 1 ELSE -1)

-----------------------------------------------------------------------------
(* cmag(mesh, retinotopy, to = 'vertices'): lines 119-129, the per-vertex  *)
(* aggregation of the per-face values.  vfaces is mesh.tess.indexed_faces  *)
(* (a sequence of faces, each a sequence of three vertices of 1..vnv), and *)
(* vdata[f] holds the values lines 83-115 computed for face f.            *)

MaxArea == 2
MaxMag == 1

\* The missing-value sentinel (numpy.nan).  No rational equals it.
NaN == <<0, 0>>

FaceData ==
    [s_area : {RInt(a) : a \in 0..MaxArea},
     v_area : {RInt(a) : a \in 0..MaxArea},
     rad_mag : {RInt(a) : a \in 0..MaxMag},
     tan_mag : {RInt(a) : a \in 0..MaxMag},
     fsgn : {RInt(-1), RInt(0), RInt(1)}]

\* The meshes: <<vertex count, faces>>.  Vertex 4 of the first touches no face.
VertMeshes ==
    { <<4, << <<1, 2, 3>> >> >>,
      <<4, << <<1, 2, 3>>, <<2, 4, 3>> >> >> }

\* neuropythy.util.simplex_summation_matrix: mtx[v][f] is 1 where face f
\* lists vertex v and 0 elsewhere.
simplex_summation_matrix(nv, faces) ==
    [v \in 1..nv |-> [f \in 1..Len(faces) |->
        IF \E i \in 1..3 : faces[f][i] = v THEN 1 ELSE 0]]

RECURSIVE RowDot(_, _, _)
RowDot(row, x, n) ==
    IF n = 0 THEN RZero
    ELSE RAdd(RowDot(row, x, n - 1), RMul(RInt(row[n]), x[n]))

\* mtx.dot(x): the matrix-vector product.
MtxDot(mtx, x) == [v \in DOMAIN mtx |-> RowDot(mtx[v], x, Len(x))]

\* line 121: cols = mtx.sum(axis=1).
MtxRowSums(mtx) ==
    [v \in DOMAIN mtx |-> RowDot(mtx[v], [f \in DOMAIN mtx[v] |-> ROne], Len(mtx[v]))]

\* A mutant of VertexAreal: the per-vertex average of the per-face ratios.
VertexArealNaive(mtx, s_areas, v_areas) ==
    LET cols_inv == [k \in DOMAIN mtx |-> zinv(MtxRowSums(mtx)[k])]
        d        == MtxDot(mtx, [f \in DOMAIN s_areas |-> RMul(s_areas[f], zinv(v_areas[f]))])
    IN  [k \in DOMAIN mtx |-> RMul(cols_inv[k], d[k])]

\* lines 124-126: sum the surface and the visual areas, then divide.
VertexAreal(mtx, s_areas, v_areas) ==
    LET s == MtxDot(mtx, s_areas)
        v == MtxDot(mtx, v_areas)
    IN  [k \in DOMAIN mtx |-> RMul(s[k], zinv(v[k]))]

\* line 128: cols_inv * mtx.dot(x).
VertexMean(mtx, x) ==
    LET cols_inv == [k \in DOMAIN mtx |-> zinv(MtxRowSums(mtx)[k])]
        d        == MtxDot(mtx, x)
    IN  [k \in DOMAIN mtx |-> RMul(cols_inv[k], d[k])]

Column(data, field) == [f \in 1..Len(data) |-> data[f][field]]

\* lines 119-129.
CmagVerticesOf(nv, faces, data) ==
    LET mtx == simplex_summation_matrix(nv, faces)
    IN  [radial     |-> VertexMean(mtx, Column(data, "rad_mag")),
         tangential |-> VertexMean(mtx, Column(data, "tan_mag")),
         areal      |-> VertexAreal(mtx, Column(data, "s_area"), Column(data, "v_area")),
         field_sign |-> VertexMean(mtx, Column(data, "fsgn"))]

FaceIdle == fpc = "idle" /\ fmap = "none" /\ fsx = <<>> /\ fvx = <<>> /\ fres = NoResult

VertsInit ==
    /\ vpc = "start"
    /\ \E m \in VertMeshes :
          /\ vnv = m[1]
          /\ vfaces = m[2]
          /\ vdata \in [1..Len(m[2]) -> FaceData]
    /\ vres = NoResult
    /\ FaceIdle
    /\ SubIdle
    /\ IsoIdle
    /\ PathIdle
    /\ NeighIdle

CmagVertices ==
    /\ vpc = "start"
    /\ vres' = CmagVerticesOf(vnv, vfaces, vdata)
    /\ vpc' = "done"
    /\ UNCHANGED <<vnv, vfaces, vdata>>
    /\ UNCHANGED <<faceVars, subVars, isoVars, pathVars, neighVars>>

VertsNext == CmagVertices

SpecVerts == VertsInit /\ [][VertsNext]_vars

\* The faces that list vertex v.
IncidentFaces(faces, v) == {f \in 1..Len(faces) : \E i \in 1..3 : faces[f][i] = v}

RECURSIVE SumOver(_, _)
SumOver(F, x) ==
    IF F = {} THEN RZero
    ELSE LET f == CHOOSE g \in F : TRUE
         IN  RAdd(x[f], SumOver(F \ {f}, x))

\* C8: with to = 'vertices', every vertex that touches no triangle has the
\* missing-value sentinel for its radial, tangential and areal magnification
\* and for its field sign.
C8_IsolatedVertexIsMissing ==
    vpc = "done" =>
        \A v \in 1..vnv :
            IncidentFaces(vfaces, v) = {} =>
                /\ vres.radial[v] = NaN
                /\ vres.tangential[v] = NaN
                /\ vres.areal[v] = NaN
                /\ vres.field_sign[v] = NaN

\* What lines 122-128 yield instead: zinv maps the zero count and the zero
\* area sum to 0, and every value of such a vertex is 0.
IsolatedVertexIsZero ==
    vpc = "done" =>
        \A v \in 1..vnv :
            IncidentFaces(vfaces, v) = {} =>
                /\ vres.radial[v] = RZero
                /\ vres.tangential[v] = RZero
                /\ vres.areal[v] = RZero
                /\ vres.field_sign[v] = RZero

\* C9: with to = 'vertices', the areal magnification of a vertex is the sum
\* of the surface areas of its incident triangles divided by the sum of their
\* visual areas, and its radial, tangential and field-sign values are the sums
\* of the incident triangles' values divided by their number.  (The quotients
\* are stated where the divisor is not zero.)
C9_VertexAggregation ==
    vpc = "done" =>
        \A v \in 1..vnv :
            LET F == IncidentFaces(vfaces, v)
                S == SumOver(F, Column(vdata, "s_area"))
                V == SumOver(F, Column(vdata, "v_area"))
                n == RInt(Cardinality(F))
            IN  /\ V # RZero => RMul(vres.areal[v], V) = S
                /\ F # {} =>
                      /\ RMul(vres.radial[v], n) = SumOver(F, Column(vdata, "rad_mag"))
                      /\ RMul(vres.tangential[v], n) = SumOver(F, Column(vdata, "tan_mag"))
                      /\ RMul(vres.field_sign[v], n) = SumOver(F, Column(vdata, "fsgn"))

\* The average of the per-triangle area ratios of the triangles of F.
MeanOfRatios(F, data) ==
    RMul(SumOver(F, [f \in 1..Len(data) |-> RMul(data[f].s_area, zinv(data[f].v_area))]),
         zinv(RInt(Cardinality(F))))

\* C9's case: a vertex of two triangles, neither of zero visual area, whose
\* areal magnification differs from the average of the two area ratios.
C9_Witness ==
    /\ vpc = "done"
    /\ \E v \in 1..vnv :
          LET F == IncidentFaces(vfaces, v)
          IN  /\ Cardinality(F) = 2
              /\ \A f \in F : vdata[f].v_area # RZero
              /\ vres.areal[v] # MeanOfRatios(F, vdata)
              /\ vres.areal[v] # RZero

-----------------------------------------------------------------------------
(* The sub-mesh of path_cortical_magnification (lines 219-249) and of      *)
(* isoangular_path (lines 403-432, the same statements).  Vertices are     *)
(* 1..nv (0..nv-1 in the source); ang and ecc hold one value per vertex:   *)
(* a number, numpy.nan, or None; mask is None or a sequence of booleans.   *)

\* Python's None.  No number equals it.
None == <<0, -1>>

\* np.issubdtype(type(a), np.number): numpy.nan is a float, None is not a number.
IsNumber(a) == a # None

\* A value the source cannot use: the missing-value sentinel, numpy.nan or None.
IsUndefined(a) == a = NaN \/ a = None

\* The elements of the sequence q whose index is in the set K, in order.
RECURSIVE Take(_, _, _)
Take(q, K, n) ==
    IF n = 0 THEN <<>>
    ELSE IF n \in K THEN Append(Take(q, K, n - 1), q[n]) ELSE Take(q, K, n - 1)

Range(q) == {q[i] : i \in DOMAIN q}

\* The position of the element x in the sequence q.
IndexOf(q, x) == CHOOSE k \in DOMAIN q : q[k] = x

\* lines 222-227: the vertices the mask keeps.
ApplyMask(nv, mask) ==
    IF mask = None THEN 1..nv ELSE {i \in 1..nv : mask[i]}

\* lines 229-236: the positions whose polar angle and eccentricity are numbers.
OkayPositions(ids, ang, ecc) ==
    {k \in DOMAIN ids : IsNumber(ang[k]) /\ IsNumber(ecc[k])}

\* line 239: the faces all of whose vertices are kept.
KeptFaces(faces, okays) ==
    Take(faces, {f \in DOMAIN faces : \A i \in 1..3 : faces[f][i] \in okays}, Len(faces))

\* lines 219-249: ids, ang, ecc of the retained vertices and the re-indexed faces.
SubMeshOf(nv, faces, mask, ang, ecc) ==
    LET all  == [i \in 1..nv |-> i]
        msk  == ApplyMask(nv, mask)
        ids1 == Take(all, msk, nv)
        ang1 == Take(ang, msk, nv)
        ecc1 == Take(ecc, msk, nv)
        oks  == OkayPositions(ids1, ang1, ecc1)
        ids2 == Take(ids1, oks, Len(ids1))
        ang2 == Take(ang1, oks, Len(ids1))
        ecc2 == Take(ecc1, oks, Len(ids1))
        tris == KeptFaces(faces, Range(ids2))
        used == UNION {Range(tris[f]) : f \in DOMAIN tris}
        idcs == {k \in DOMAIN ids2 : ids2[k] \in used}
        ids3 == Take(ids2, idcs, Len(ids2))
    IN  [ids  |-> ids3,
         ang  |-> Take(ang2, idcs, Len(ids2)),
         ecc  |-> Take(ecc2, idcs, Len(ids2)),
         tris |-> [f \in DOMAIN tris |-> [i \in 1..3 |-> IndexOf(ids3, tris[f][i])]]]

\* The vertices of a mesh every vertex of which is in a face.
VertexCount(faces) == Cardinality(UNION {Range(faces[f]) : f \in DOMAIN faces})

\* The mesh of the sub-mesh construction: four vertices, two faces.
SubFaces == << <<1, 2, 3>>, <<2, 4, 3>> >>
SubNv == VertexCount(SubFaces)

FieldValues == {RInt(1), NaN, None}

SubInit ==
    /\ spc = "start"
    /\ smask \in {None} \cup [1..SubNv -> BOOLEAN]
    /\ sang \in [1..SubNv -> FieldValues]
    /\ secc \in [1..SubNv -> FieldValues]
    /\ sres = NoResult
    /\ FaceIdle
    /\ VertIdle
    /\ IsoIdle
    /\ PathIdle
    /\ NeighIdle

BuildSubMesh ==
    /\ spc = "start"
    /\ sres' = SubMeshOf(SubNv, SubFaces, smask, sang, secc)
    /\ spc' = "done"
    /\ UNCHANGED <<smask, sang, secc>>
    /\ UNCHANGED <<faceVars, vertVars, isoVars, pathVars, neighVars>>

SubNext == BuildSubMesh

SpecSub == SubInit /\ [][SubNext]_vars

\* C3: in the sub-mesh no vertex whose polar angle or eccentricity is
\* undefined (the missing-value sentinel) and no vertex outside the mask
\* appears, no retained triangle touches such a vertex, and the re-indexed
\* vertex indices of every retained triangle refer to retained vertices.
C3_SubMeshHasNoUndefined ==
    spc = "done" =>
        /\ \A k \in DOMAIN sres.ids :
              /\ ~IsUndefined(sang[sres.ids[k]])
              /\ ~IsUndefined(secc[sres.ids[k]])
              /\ smask # None => smask[sres.ids[k]]
        /\ \A f \in DOMAIN sres.tris : \A i \in 1..3 :
              /\ sres.tris[f][i] \in DOMAIN sres.ids
              /\ ~IsUndefined(sang[sres.ids[sres.tris[f][i]]])
              /\ ~IsUndefined(secc[sres.ids[sres.tris[f][i]]])

\* What does hold: the same with None for the undefined value.  A vertex
\* whose value is numpy.nan passes the test of lines 229-231 and is retained.
SubMeshHasNoNone ==
    spc = "done" =>
        /\ \A k \in DOMAIN sres.ids :
              /\ sang[sres.ids[k]] # None
              /\ secc[sres.ids[k]] # None
              /\ sres.ang[k] = sang[sres.ids[k]]
              /\ sres.ecc[k] = secc[sres.ids[k]]
              /\ smask # None => smask[sres.ids[k]]
              /\ \E f \in DOMAIN sres.tris : \E i \in 1..3 : sres.tris[f][i] = k
        /\ \A f \in DOMAIN sres.tris : \A i \in 1..3 :
              sres.tris[f][i] \in DOMAIN sres.ids
        /\ \A g \in DOMAIN SubFaces :
              (\A i \in 1..3 : /\ smask # None => smask[SubFaces[g][i]]
                               /\ sang[SubFaces[g][i]] # None
                               /\ secc[SubFaces[g][i]] # None)
              <=> \E f \in DOMAIN sres.tris :
                     \A i \in 1..3 : sres.ids[sres.tris[f][i]] = SubFaces[g][i]

-----------------------------------------------------------------------------
(* isoangular_path(mesh, 'angle', val, mask = None, min_segment_length).   *)
(* Triangles are named by their index in tris (1.. here, 0.. in the        *)
(* source).  A dictionary is a function; a list is a sequence.            *)

MaxMinSeg == 3

\* The polar angles of the vertices: a number below the level, the level, a
\* number above it, or numpy.nan.
IsoValues == {RInt(0), RInt(1), RInt(3), NaN}

\* The level asked for.
IsoLevels == {RInt(1)}

\* The meshes (mesh.tess.indexed_faces).  A strip of four triangles on two
\* rows of three vertices, wound counter-clockwise; the same strip with its
\* last face listed from another vertex; and a fan of four triangles around
\* vertex 5.
IsoMeshes ==
    { << <<1, 2, 4>>, <<5, 4, 2>>, <<2, 3, 5>>, <<6, 5, 3>> >>,
      << <<1, 2, 4>>, <<5, 4, 2>>, <<2, 3, 5>>, <<3, 6, 5>> >>,
      << <<1, 2, 5>>, <<5, 2, 3>>, <<3, 4, 5>>, <<5, 4, 1>> >> }

\* lines 450-451: 0 below the level, 1 at or above it; sign(nan) + 1 is nan,
\* which astype(bool) makes True.
AngSide(vals, val, u) ==
    IF vals[u] = NaN THEN 1 ELSE IF RLess(vals[u], val) THEN 0 ELSE 1

\* lines 453-454: the triangles with a vertex on each side, in ascending order.
Straddling(tris, vals, val) ==
    {t \in DOMAIN tris :
        LET n == AngSide(vals, val, tris[t][1]) + AngSide(vals, val, tris[t][2])
                 + AngSide(vals, val, tris[t][3])
        IN  n > 0 /\ n < 3}

\* The ascending sequence of the elements of a set of integers.
RECURSIVE Sorted(_)
Sorted(S) ==
    IF S = {} THEN <<>>
    ELSE LET m == CHOOSE x \in S : \A y \in S : x <= y
         IN  <<m>> \o Sorted(S \ {m})

\* lines 458-460: the (u, v, i) of the loop: the sides (0,1) of every
\* straddling triangle, then the sides (0,2), then the sides (1,2).
AdjItems(tris, trii) ==
    [n \in 1..Len(trii) |-> <<tris[trii[n]][1], tris[trii[n]][2], trii[n]>>]
    \o [n \in 1..Len(trii) |-> <<tris[trii[n]][1], tris[trii[n]][3], trii[n]>>]
    \o [n \in 1..Len(trii) |-> <<tris[trii[n]][2], tris[trii[n]][3], trii[n]>>]

\* line 462: the side (u, v) does not cross the level.
NotCrossing(vals, val, u, v) ==
    \/ AngSide(vals, val, u) = AngSide(vals, val, v)
    \/ vals[u] = val
    \/ vals[v] = val

Without(f, k) == [x \in DOMAIN f \ {k} |-> f[x]]

Put(f, k, v) == (k :> v) @@ f

\* lines 456-470: tadj and tmp after the first n items of the loop.
RECURSIVE BuildAdj(_, _, _, _)
BuildAdj(items, vals, val, n) ==
    IF n = 0 THEN [tadj |-> <<>>, tmp |-> <<>>]
    ELSE LET prev == BuildAdj(items, vals, val, n - 1)
             u    == items[n][1]
             v    == items[n][2]
             i    == items[n][3]
         IN  IF NotCrossing(vals, val, u, v) THEN prev
             ELSE IF <<v, u>> \in DOMAIN prev.tmp
                  THEN LET k == prev.tmp[<<v, u>>]
                       IN  [tadj |-> Put(Put(prev.tadj, <<i, k>>, <<u, v>>), <<k, i>>, <<u, v>>),
                            tmp  |-> Without(prev.tmp, <<v, u>>)]
                  ELSE [tadj |-> prev.tadj, tmp |-> Put(prev.tmp, <<u, v>>, i)]

\* lines 474-479: the root _find(k) returns, and cls after its path compression.
RECURSIVE FindRoot(_, _)
FindRoot(c, k) ==
    LET kc == c[k]
    IN  IF k = kc \/ c[kc] = kc THEN kc ELSE FindRoot(c, kc)

RECURSIVE FindCls(_, _)
FindCls(c, k) ==
    LET kc == c[k]
    IN  IF k = kc \/ c[kc] = kc THEN c
        ELSE [FindCls(c, kc) EXCEPT ![k] = FindRoot(c, kc)]

Reverse(q) == [n \in 1..Len(q) |-> q[Len(q) + 1 - n]]

\* A mutant of UnionLists: the two lists are joined as they are, wherever u
\* and v sit in them.
UnionListsAnywhere(us, vs, u, v) == <<us, vs>>

\* lines 489-493: the two lists _union joins, or <<>> where nothing is joined.
UnionLists(us, vs, u, v) ==
    LET u0 == us[1]
        ue == us[Len(us)]
        v0 == vs[1]
        ve == vs[Len(vs)]
    IN  IF u0 = u /\ v0 = v THEN <<Reverse(us), vs>>
        ELSE IF u0 = u /\ ve = v THEN <<Reverse(us), Reverse(vs)>>
        ELSE IF ue = u /\ v0 = v THEN <<us, vs>>
        ELSE IF ue = u /\ ve = v THEN <<us, Reverse(vs)>>
        ELSE <<>>

\* lines 480-501: seg and cls after _union(u, v).
UnionOf(sg, c, u, v) ==
    LET c1 == FindCls(c, u)
        uc == FindRoot(c, u)
        c2 == FindCls(c1, v)
        vc == FindRoot(c1, v)
        ab == UnionLists(sg[uc], sg[vc], u, v)
    IN  IF uc = vc \/ ab = <<>> THEN [seg |-> sg, cls |-> c2]
        ELSE LET a == ab[1] \o ab[2]
             IN  [seg |-> [sg EXCEPT ![uc] = a, ![vc] = a],
                  cls |-> [c2 EXCEPT ![vc] = uc, ![u] = uc, ![v] = uc]]

\* line 503: cls after _find(ti) for every ti of trii, in order.
RECURSIVE FindAll(_, _, _)
FindAll(c, trii, n) ==
    IF n = 0 THEN c ELSE FindCls(FindAll(c, trii, n - 1), trii[n])

\* -infinity.
NegInf == <<-1, 0>>

\* Floating-point x - y and x / y of numbers that may be numpy.nan: nan
\* propagates, and a division by zero yields nan or an infinity (numpy warns
\* and does not raise).
FSub(x, y) == IF x = NaN \/ y = NaN THEN NaN ELSE RSub(x, y)

FDiv(x, y) ==
    IF x = NaN \/ y = NaN THEN NaN
    ELSE IF y = RZero
         THEN (IF x = RZero THEN NaN ELSE IF x[1] > 0 THEN Inf ELSE NegInf)
         ELSE R(x[1] * y[2], x[2] * y[1])

\* 1.0 - f.
OneMinus(f) ==
    IF f = NaN THEN NaN
    ELSE IF f = Inf THEN NegInf
    ELSE IF f = NegInf THEN Inf
    ELSE RSub(ROne, f)

\* The point fa*coords[a] + fb*coords[b] of the coordinate space sp, kept as
\* its weights; a vertex of the mesh is the point of kind "vertex".
VertexPoint(sp, w) ==
    [space |-> sp, kind |-> "vertex", a |-> w, fa |-> ROne, b |-> w, fb |-> RZero]

InterpPoint(sp, a, fa, b, fb) ==
    [space |-> sp, kind |-> "interp", a |-> a, fa |-> fa, b |-> b, fb |-> fb]

\* np.setdiff1d(tris[t], (u, v))[0]: the least vertex of t that is not u or v.
ThirdVertex(tris, t, u, v) ==
    CHOOSE w \in Range(tris[t]) \ {u, v} : \A x \in Range(tris[t]) \ {u, v} : w <= x

\* lines 516-526 and 535-545: the point at the open end of the end triangle t
\* of a chain, whose side shared with the next triangle of the chain is uv.
EndPoint(sp, tris, vals, val, t, uv) ==
    LET v == uv[2]
        w == ThirdVertex(tris, t, uv[1], v)
        u == IF AngSide(vals, val, w) # AngSide(vals, val, v) THEN v ELSE uv[1]
        w_frac == FDiv(FSub(vals[w], val), FSub(vals[w], vals[u]))
    IN  IF vals[w] = val THEN VertexPoint(sp, w)
        ELSE InterpPoint(sp, w, w_frac, u, OneMinus(w_frac))

\* lines 528-533: the point on the side shared by two consecutive triangles.
SharedPoint(sp, vals, val, uv) ==
    LET u == uv[1]
        v == uv[2]
        v_frac == FDiv(FSub(vals[v], val), FSub(vals[v], vals[u]))
    IN  InterpPoint(sp, v, v_frac, u, OneMinus(v_frac))

\* lines 514-545: the points of the chain s in the coordinate space sp.
ChainPoints(sp, tris, vals, val, adj, s) ==
    <<EndPoint(sp, tris, vals, val, s[1], adj[<<s[1], s[2]>>])>>
    \o [n \in 1..(Len(s) - 1) |-> SharedPoint(sp, vals, val, adj[<<s[n], s[n + 1]>>])]
    \o <<EndPoint(sp, tris, vals, val, s[Len(s)], adj[<<s[Len(s) - 1], s[Len(s)]>>])>>

\* A mutant of KeepsChain: a chain of exactly the minimum length is dropped.
KeepsChainStrict(n, msl) == n > (IF msl < 2 THEN 2 ELSE msl)

\* lines 509 and 513: the chain of n triangles is not skipped.
KeepsChain(n, msl) == ~(n < (IF msl < 2 THEN 2 ELSE msl))

\* lines 505-506: seg_ids, the class roots in ascending order.
SegIds(c, trii) == Sorted({c[trii[n]] : n \in DOMAIN trii})

\* lines 507-550: the polylines of the chains that are kept, in both spaces.
RECURSIVE Polylines(_, _, _, _, _, _, _, _)
Polylines(sp, tris, vals, val, adj, sg, ids, msl) ==
    IF ids = <<>> THEN <<>>
    ELSE LET s == sg[Head(ids)]
             rest == Polylines(sp, tris, vals, val, adj, sg, Tail(ids), msl)
         IN  IF KeepsChain(Len(s), msl)
             THEN <<ChainPoints(sp, tris, vals, val, adj, s)>> \o rest
             ELSE rest

IsoInit ==
    /\ ipc = "start"
    /\ imesh \in IsoMeshes
    /\ iang \in [1..VertexCount(imesh) -> IsoValues]
    /\ ival \in IsoLevels
    /\ iminseg = 0
    /\ itris = <<>> /\ ivals = <<>> /\ tadj = <<>> /\ todo = {} /\ seg = <<>> /\ cls = <<>>
    /\ iout = NoResult
    /\ FaceIdle
    /\ VertIdle
    /\ SubIdle
    /\ PathIdle
    /\ NeighIdle

\* lines 401-473: the sub-mesh, the adjacency of the straddling triangles,
\* and one chain and one class for each of them.
IsoPrepare ==
    /\ ipc = "start"
    /\ LET nv   == VertexCount(imesh)
           sub  == SubMeshOf(nv, imesh, None, iang, [i \in 1..nv |-> ROne])
           trii == Sorted(Straddling(sub.tris, sub.ang, ival))
           adj  == BuildAdj(AdjItems(sub.tris, trii), sub.ang, ival, 3 * Len(trii)).tadj
       IN  /\ itris' = sub.tris
           /\ ivals' = sub.ang
           /\ tadj' = adj
           /\ todo' = DOMAIN adj
           /\ seg' = [t \in Range(trii) |-> <<t>>]
           /\ cls' = [t \in Range(trii) |-> t]
    /\ ipc' = "union"
    /\ UNCHANGED <<imesh, iang, ival, iminseg, iout>>
    /\ UNCHANGED <<faceVars, vertVars, subVars, pathVars, neighVars>>

\* line 502: _union(ti, tj) for one key of tadj; the keys come in the order
\* of the dictionary, which is any order.
IsoUnion ==
    /\ ipc = "union"
    /\ \E k \in todo :
          LET r == UnionOf(seg, cls, k[1], k[2])
          IN  /\ seg' = r.seg
              /\ cls' = r.cls
              /\ todo' = todo \ {k}
    /\ UNCHANGED <<ipc, imesh, iang, ival, iminseg, itris, ivals, tadj, iout>>
    /\ UNCHANGED <<faceVars, vertVars, subVars, pathVars, neighVars>>

\* lines 503-550: the classes are found and the kept chains become polylines.
\* min_segment_length is read here first (line 509).
IsoFinish ==
    /\ ipc = "union"
    /\ todo = {}
    /\ iminseg' \in 0..MaxMinSeg
    /\ LET trii == Sorted(DOMAIN cls)
           c    == FindAll(cls, trii, Len(trii))
           ids  == SegIds(c, trii)
       IN  /\ cls' = c
           /\ iout' = [seg_srf |-> Polylines("srf", itris, ivals, ival, tadj, seg, ids, iminseg'),
                       seg_vis |-> Polylines("vis", itris, ivals, ival, tadj, seg, ids, iminseg')]
    /\ ipc' = "done"
    /\ UNCHANGED <<imesh, iang, ival, itris, ivals, tadj, todo, seg>>
    /\ UNCHANGED <<faceVars, vertVars, subVars, pathVars, neighVars>>

IsoNext == IsoPrepare \/ IsoUnion \/ IsoFinish

SpecIso == IsoInit /\ [][IsoNext]_vars

\* The class roots, and the triangles of the class of the root r.
Roots == {t \in DOMAIN cls : cls[t] = t}

ClassOf(r) == {t \in DOMAIN cls : FindRoot(cls, t) = r}

IsEnd(q, x) == q[1] = x \/ q[Len(q)] = x

\* C4, the chains: every straddling triangle is in the chain of exactly one
\* class root, the chain of a root holds exactly the triangles of its class,
\* none twice, and consecutive triangles of a chain are adjacent in tadj.
ChainsWellFormed ==
    /\ \A t \in DOMAIN cls :
          Cardinality({r \in Roots : t \in Range(seg[r])}) = 1
    /\ \A r \in Roots :
          /\ Range(seg[r]) = ClassOf(r)
          /\ Len(seg[r]) = Cardinality(ClassOf(r))
          /\ \A n \in 1..(Len(seg[r]) - 1) : <<seg[r][n], seg[r][n + 1]>> \in DOMAIN tadj

\* C4, the merge: a _union(u, v) that changes a chain joins the chains of two
\* different classes, u at an end of the one and v at an end of the other,
\* into one chain that holds u and v side by side; any other _union(u, v)
\* leaves every chain as it was.
MergeAtEndsOnly ==
    (ipc = "union" /\ ipc' = "union") =>
        \A k \in todo \ todo' :
            LET uc == FindRoot(cls, k[1])
                vc == FindRoot(cls, k[2])
                at == uc # vc /\ IsEnd(seg[uc], k[1]) /\ IsEnd(seg[vc], k[2])
            IN  /\ ~at => seg' = seg
                /\ at =>
                      /\ Len(seg'[uc]) = Len(seg[uc]) + Len(seg[vc])
                      /\ Range(seg'[uc]) = Range(seg[uc]) \cup Range(seg[vc])
                      /\ \E n \in 1..(Len(seg'[uc]) - 1) :
                            seg'[uc][n] = k[1] /\ seg'[uc][n + 1] = k[2]
                      /\ \A r \in DOMAIN seg \ {uc, vc} : seg'[r] = seg[r]

\* C4: in isoangular_path, whatever the order of the _union calls, the
\* chains are well formed after every one of them (and so after all of them),
\* and two chains are merged only at an end of each.
C4_UnionChains ==
    /\ [](ipc \in {"union", "done"} => ChainsWellFormed)
    /\ [][MergeAtEndsOnly]_vars

\* C4's case: every adjacency pair has been given to _union, and a chain of
\* four triangles has come of at least three merges.
C4_Witness ==
    /\ ipc = "union"
    /\ todo = {}
    /\ \E r \in Roots : Len(seg[r]) = 4

Max2(n) == IF n < 2 THEN 2 ELSE n

\* C5: every polyline pair returned comes from a chain of at least
\* max(2, min_segment_length) triangles and every such chain gives one; the
\* surface polyline and the visual polyline of a chain have as many points as
\* the chain has triangles plus one, and their inner points lie on the sides
\* shared by consecutive triangles of the chain.
C5_PolylinesOfLongChains ==
    ipc = "done" =>
        LET kept == Sorted({r \in Roots : Len(seg[r]) >= Max2(iminseg)})
        IN  /\ Len(iout.seg_srf) = Len(kept)
            /\ Len(iout.seg_vis) = Len(kept)
            /\ \A i \in 1..Len(kept) :
                  LET s == seg[kept[i]]
                  IN  /\ Len(iout.seg_srf[i]) = Len(s) + 1
                      /\ Len(iout.seg_vis[i]) = Len(s) + 1
                      /\ \A n \in 1..(Len(s) - 1) :
                            /\ {iout.seg_srf[i][n + 1].a, iout.seg_srf[i][n + 1].b}
                                  = Range(tadj[<<s[n], s[n + 1]>>])
                            /\ {iout.seg_vis[i][n + 1].a, iout.seg_vis[i][n + 1].b}
                                  = Range(tadj[<<s[n], s[n + 1]>>])

\* C5's case: min_segment_length is below 2, a chain of two triangles has
\* given a polyline of three points, and a chain of one triangle has given none.
C5_Witness ==
    /\ ipc = "done"
    /\ iminseg < 2
    /\ \E r \in Roots : Len(seg[r]) = 1
    /\ \E i \in DOMAIN iout.seg_srf : Len(iout.seg_srf[i]) = 3
    /\ Len(iout.seg_srf) < Cardinality(Roots)

\* A fraction that is a number of [0, 1].
InUnit(f) == f[2] > 0 /\ 0 <= f[1] /\ f[1] <= f[2]

\* The points of the polylines returned.
OutPoints ==
    UNION {Range(iout.seg_srf[i]) : i \in DOMAIN iout.seg_srf}
    \cup UNION {Range(iout.seg_vis[i]) : i \in DOMAIN iout.seg_vis}

FractionsSound ==
    \A p \in OutPoints :
        /\ p.kind = "interp" =>
              /\ FSub(ivals[p.a], ivals[p.b]) # RZero
              /\ InUnit(p.fa)
              /\ InUnit(p.fb)
        /\ (ivals[p.a] = ival \/ ivals[p.b] = ival) =>
              /\ p.kind = "vertex"
              /\ ivals[p.a] = ival
              /\ p.fa \in {RZero, ROne}

\* C6: for every mesh, field and level, no interpolation of isoangular_path
\* divides by zero: the two field values of each denominator differ, each
\* fraction lies in [0, 1], and at a vertex whose value is the level the
\* fraction is 0 or 1 and the contour point is that vertex.
C6_FractionsSound == ipc = "done" => FractionsSound

\* What does hold: the same of a field no value of which is numpy.nan.
FractionsSoundOfNumbers ==
    (ipc = "done" /\ \A v \in DOMAIN ivals : ivals[v] # NaN) => FractionsSound

\* No interpolation divides by zero, numpy.nan or not.
NoZeroDenominator ==
    ipc = "done" =>
        \A p \in OutPoints :
            p.kind = "interp" => FSub(ivals[p.a], ivals[p.b]) # RZero

-----------------------------------------------------------------------------
(* path_cortical_magnification(mesh, path, mask, return_all), lines        *)
(* 207-385.  A point of the plane is a pair of rationals.  The functions   *)
(* of neuropythy.geometry the walk calls (segment_intersection_2D,         *)
(* point_in_triangle, container, address, unaddress) are computed exactly. *)

Pt(x, y) == <<RInt(x), RInt(y)>>

\* The point segment_intersection_2D yields where there is no intersection.
NaNPt == <<NaN, NaN>>

PAdd(p, q) ==
    CHOOSE r \in {<<RAdd(a[1][1], a[2][1]), RAdd(a[1][2], a[2][2])>> : a \in {<<p, q>>}} : TRUE

PSub(p, q) ==
    CHOOSE r \in {<<RSub(a[1][1], a[2][1]), RSub(a[1][2], a[2][2])>> : a \in {<<p, q>>}} : TRUE

PScale(t, p) ==
    CHOOSE r \in {<<RMul(a[1], a[2][1]), RMul(a[1], a[2][2])>> : a \in {<<t, p>>}} : TRUE

Dot(p, q) ==
    CHOOSE r \in {RAdd(RMul(a[1][1], a[2][1]), RMul(a[1][2], a[2][2])) : a \in {<<p, q>>}} : TRUE

CrossP(p, q) ==
    CHOOSE r \in {RSub(RMul(a[1][1], a[2][2]), RMul(a[1][2], a[2][1])) : a \in {<<p, q>>}} : TRUE

\* x / y of a rational y that is not zero.
RDiv(x, y) == CHOOSE r \in {RMul(x, R(d[2], d[1])) : d \in {y}} : TRUE

Between01(t) == 0 <= t[1] /\ t[1] <= t[2]

\* neuropythy.geometry.segment_intersection_2D((p, q), (a, b)): the point
\* the two segments share, ends included, or NaNPt where the segments are
\* parallel or do not meet.
\* The segment from p along r and the segment from p + e along s, where
\* r x s = den, e x s = tn and e x r = un, meet at p + (tn / den) r.
SegmentsMeet(p, r, den, tn, un) ==
    IF den = RZero THEN NaNPt
    ELSE IF Between01(RDiv(tn, den)) /\ Between01(RDiv(un, den))
         THEN PAdd(p, PScale(RDiv(tn, den), r))
         ELSE NaNPt

SegmentsFrom(p, r, e, s) == SegmentsMeet(p, r, CrossP(r, s), CrossP(e, s), CrossP(e, r))

segment_intersection_2D(p, q, a, b) == SegmentsFrom(p, PSub(q, p), PSub(a, p), PSub(b, a))

\* neuropythy.geometry.point_in_triangle(tri, x), the sides included.
point_in_triangle(tri, x) ==
    LET c1 == RSign(CrossP(PSub(tri[2], tri[1]), PSub(x, tri[1])))
        c2 == RSign(CrossP(PSub(tri[3], tri[2]), PSub(x, tri[2])))
        c3 == RSign(CrossP(PSub(tri[1], tri[3]), PSub(x, tri[3])))
    IN  \/ (c1 >= 0 /\ c2 >= 0 /\ c3 >= 0)
        \/ (c1 <= 0 /\ c2 <= 0 /\ c3 <= 0)

\* The tid of the source that is None.  The triangles are numbered from 1.
NoTid == 0

\* The corners, in visual space, of the triangle t of the mesh m.
TriPts(m, t) == [k \in 1..3 |-> m.vis[m.tris[t][k]]]

\* vis_reg.container(x): the triangle that holds x, or None.
FirstTid(holds) ==
    IF holds = {} THEN NoTid ELSE CHOOSE t \in holds : \A o \in holds : t <= o

container(m, x) == FirstTid({t \in DOMAIN m.tris : point_in_triangle(TriPts(m, t), x)})

\* vis_reg.address(x): the triangle that holds x and the barycentric
\* coordinates of x in it.
Barycentric(tri, x, area) ==
    <<RDiv(CrossP(PSub(tri[2], x), PSub(tri[3], x)), area),
      RDiv(CrossP(PSub(tri[3], x), PSub(tri[1], x)), area),
      RDiv(CrossP(PSub(tri[1], x), PSub(tri[2], x)), area)>>

AddressIn(tri, t, x) ==
    [tid  |-> t,
     bary |-> Barycentric(tri, x, CrossP(PSub(tri[2], tri[1]), PSub(tri[3], tri[1])))]

AddressAt(m, t, x) == AddressIn(TriPts(m, t), t, x)

address(m, x) == AddressAt(m, container(m, x), x)

\* srf_reg.unaddress(addr): the point of the surface with that address.
unaddress(m, addr) ==
    PAdd(PScale(addr.bary[1], m.srf[m.tris[addr.tid][1]]),
         PAdd(PScale(addr.bary[2], m.srf[m.tris[addr.tid][2]]),
              PScale(addr.bary[3], m.srf[m.tris[addr.tid][3]])))

\* cos and sin of a whole number of right angles, given in degrees.
CosDeg(a) == CASE a % 360 = 0 -> 1 [] a % 360 = 90 -> 0 [] a % 360 = 180 -> -1 [] a % 360 = 270 -> 0

SinDeg(a) == CASE a % 360 = 0 -> 0 [] a % 360 = 90 -> 1 [] a % 360 = 180 -> 0 [] a % 360 = 270 -> -1

\* line 251: the visual-field point of polar angle ang (degrees from the
\* upper vertical meridian) and eccentricity ecc.
VisCoord(ang, ecc) ==
    PScale(ecc, <<RInt(CosDeg(90 - ang[1])), RInt(SinDeg(90 - ang[1]))>>)

\* The mesh of the walk: the centre of the visual field and four vertices
\* around it at eccentricity 4, on the right, upper, left and lower half
\* meridians, with three of the four quadrants as faces; the lower left
\* quadrant is a hole.  On the surface the mesh is twice as large.
PathAng == <<RInt(0), RInt(90), RInt(0), RInt(-90), RInt(180)>>

PathEcc == <<RInt(0), RInt(4), RInt(4), RInt(4), RInt(4)>>

PathFaces == << <<1, 2, 3>>, <<1, 3, 4>>, <<1, 5, 2>> >>

PathSrf == <<Pt(0, 0), Pt(8, 0), Pt(0, 8), Pt(-8, 0), Pt(0, -8)>>

\* The masks: none, and one that leaves out the vertex on the right.
PathMasks == {None, <<TRUE, FALSE, TRUE, TRUE, TRUE>>}

\* lines 219-255: the sub-mesh with its visual and its surface coordinates.
PathMesh(mask) ==
    LET sub == SubMeshOf(Len(PathSrf), PathFaces, mask, PathAng, PathEcc)
    IN  [tris |-> sub.tris,
         vis  |-> [k \in DOMAIN sub.ids |-> VisCoord(sub.ang[k], sub.ecc[k])],
         srf  |-> [k \in DOMAIN sub.ids |-> PathSrf[sub.ids[k]]]]

SortPair(u, v) == IF u <= v THEN <<u, v>> ELSE <<v, u>>

\* line 290: the sides of a face, in the order of tsegs.
TriEdges(f) == <<SortPair(f[1], f[2]), SortPair(f[2], f[3]), SortPair(f[3], f[1])>>

\* lines 264-268: the triangles of each side of the mesh.
EdgeIdx(tris) ==
    [e \in UNION {Range(TriEdges(tris[t])) : t \in DOMAIN tris} |->
        {t \in DOMAIN tris : e \in Range(TriEdges(tris[t]))}]

\* atol of line 221 is 1 / AtolInv; the atol np.isclose has by default
\* (line 329) is 1 / DefaultAtolInv.
AtolInv == 1000000

DefaultAtolInv == 100000000

\* A mutant of Ahead: d is not behind, d >= 0.
AheadOrAt(d, k) == d[2] > 0 /\ (d[1] = 0 \/ (d[1] > 0 /\ (d[2] \div d[1]) < k))

\* d > 0 and not np.isclose(d, 0, atol = 1 / k): d > 1 / k.
Ahead(d, k) == d[1] > 0 /\ d[2] > 0 /\ (d[2] \div d[1]) < k

\* np.dot(x - p, projdir), nan for the point that is no intersection.
DistAlong(x, p, projdir) == IF x = NaNPt THEN NaN ELSE Dot(PSub(x, p), projdir)

\* line 294: the intersections of the segment (p, q) with the sides of t.
LocalIsect(m, t, p, q) ==
    [k \in 1..3 |->
        segment_intersection_2D(p, q, m.vis[m.tris[t][k]], m.vis[m.tris[t][(k % 3) + 1]])]

\* lines 300-304: of the intersections isect, the index of the nearest one
\* ahead of p along projdir, or 0 where none is ahead.  sorted() is stable:
\* of equally near intersections the first is taken.
NearestAhead(isect, p, projdir, cands) ==
    IF cands = {} THEN 0
    ELSE CHOOSE k \in cands :
            \A j \in cands :
                \/ RLess(DistAlong(isect[k], p, projdir), DistAlong(isect[j], p, projdir))
                \/ (DistAlong(isect[k], p, projdir) = DistAlong(isect[j], p, projdir) /\ k <= j)

LocalNearest(isect, p, projdir) ==
    NearestAhead(isect, p, projdir,
                 {k \in 1..3 : Ahead(DistAlong(isect[k], p, projdir), AtolInv)})

\* line 308: the triangle on the other side of the side e of t, or None.
\* A side of this mesh has at most two triangles.
OtherSide(eidx, e, t) ==
    IF eidx[e] \ {t} = {} THEN NoTid ELSE CHOOSE o \in eidx[e] \ {t} : TRUE

\* lines 305-309 and 314-315: the triangle the walk crosses into by the
\* side k of t, None where there is no side ahead (k = 0) or no triangle.
CrossInto(m, eidx, t, k) ==
    IF k = 0 THEN NoTid ELSE OtherSide(eidx, TriEdges(m.tris[t])[k], t)

\* line 319: the intersections of the segment (p0, q) with every side.
AllIsect(m, eidx, p0, q) ==
    [e \in DOMAIN eidx |-> segment_intersection_2D(p0, q, m.vis[e[1]], m.vis[e[2]])]

\* The points a path is made of: two in each face of the mesh, one in the
\* hole and one beyond the rim.
PathPoints ==
    {Pt(1, 1), Pt(1, 2), Pt(-1, 2), Pt(-2, 1), Pt(2, -1), Pt(1, -2), Pt(-1, -1), Pt(3, 3)}

\* The points of the paths that stay by the side the first two faces share:
\* one on either side of it, so near that the step from one to the other is
\* within atol of its start and beyond the atol np.isclose has by default.
NearSide == 2000

NearPoints == {<<R(-1, NearSide), RInt(1)>>, <<R(1, NearSide), RInt(1)>>}

MaxPath == 3

\* The mapping failures of one call are at most MaxMapFail.
MaxMapFail == 2

PathInit ==
    /\ ppc = "start"
    /\ pmask \in PathMasks
    /\ pth \in UNION {[1..n -> PathPoints] \cup [1..n -> NearPoints] : n \in 1..MaxPath}
    /\ return_all \in BOOLEAN
    /\ pmesh = NoResult /\ edge_idx = <<>> /\ tids = <<>> /\ pidx = 0 /\ tid = NoTid
    /\ pt = <<>> /\ ss = <<>> /\ steps = <<>> /\ uidx = 0 /\ xidx = 0 /\ nfail = 0
    /\ ss_vis = <<>> /\ ss_srf = <<>> /\ vis_steps = <<>> /\ srf_steps = <<>>
    /\ pres = NoResult
    /\ FaceIdle
    /\ VertIdle
    /\ SubIdle
    /\ IsoIdle
    /\ NeighIdle

\* Of the iteration pidx of the loop of line 272: pt0, next_pt and next_tid.
Pt0 == pth[pidx]

NextPt == pth[(pidx % Len(pth)) + 1]

NextTid == tids[(pidx % Len(pth)) + 1]

\* A mutant of LongEnough: a sub-path is kept if it has a point.
LongEnoughOne(q) == Len(q) > 0

\* lines 277, 317, 342, 360 and 368: a sub-path is kept if it has more than
\* one point.
LongEnough(q) == Len(q) > 1

Keep(list, q) == IF LongEnough(q) THEN Append(list, q) ELSE list

\* lines 217-271: the sub-mesh, the containers of the path points, edge_idx.
PathStart ==
    /\ ppc = "start"
    /\ pmesh' = PathMesh(pmask)
    /\ edge_idx' = EdgeIdx(pmesh'.tris)
    /\ tids' = [k \in DOMAIN pth |-> container(pmesh', pth[k])]
    /\ steps' = <<>>
    /\ ss' = <<>>
    /\ pidx' = 1
    /\ ppc' = "for"
    /\ UNCHANGED <<pmask, pth, return_all, tid, pt, uidx, xidx, nfail,
                   ss_vis, ss_srf, vis_steps, srf_steps, pres>>
    /\ UNCHANGED <<faceVars, vertVars, subVars, isoVars, neighVars>>

\* lines 272-284: one pair of path points.  A point outside the mesh, and a
\* next point that is the first point of the path, close the sub-path.
PathFor ==
    /\ ppc = "for"
    /\ pidx <= Len(pth)
    /\ tid' = tids[pidx]
    /\ pt' = Pt0
    /\ IF tids[pidx] = NoTid \/ NextPt = pth[1]
       THEN /\ steps' = Keep(steps, IF tids[pidx] # NoTid THEN Append(ss, Pt0) ELSE ss)
            /\ ss' = <<>>
            /\ pidx' = pidx + 1
            /\ ppc' = "for"
       ELSE /\ ss' = Append(ss, Pt0)
            /\ ppc' = "while"
            /\ UNCHANGED <<steps, pidx>>
    /\ UNCHANGED <<pmask, pth, return_all, pmesh, edge_idx, tids, uidx, xidx, nfail,
                   ss_vis, ss_srf, vis_steps, srf_steps, pres>>
    /\ UNCHANGED <<faceVars, vertVars, subVars, isoVars, neighVars>>

\* line 285: the walk ends in the triangle that holds next_pt.
WalkArrive ==
    /\ ppc = "while"
    /\ point_in_triangle(TriPts(pmesh, tid), NextPt)
    /\ pidx' = pidx + 1
    /\ ppc' = "for"
    /\ UNCHANGED <<pmask, pth, return_all, pmesh, edge_idx, tids, tid, pt, ss, steps,
                   uidx, xidx, nfail, ss_vis, ss_srf, vis_steps, srf_steps, pres>>
    /\ UNCHANGED <<faceVars, vertVars, subVars, isoVars, neighVars>>

\* lines 285-309, the triangle on the other side found: the walk crosses
\* into it and the crossing point joins the running sub-path.
WalkCross ==
    /\ ppc = "while"
    /\ ~point_in_triangle(TriPts(pmesh, tid), NextPt)
    /\ \E isect \in {LocalIsect(pmesh, tid, pt, NextPt)} :
       \E k \in {LocalNearest(isect, pt, PSub(NextPt, pt))} :
          /\ CrossInto(pmesh, edge_idx, tid, k) # NoTid
          /\ pt' = isect[k]
          /\ tid' = CrossInto(pmesh, edge_idx, tid, k)
          /\ ss' = Append(ss, isect[k])
    /\ UNCHANGED <<pmask, pth, return_all, pmesh, edge_idx, tids, pidx, steps, ppc,
                   uidx, xidx, nfail, ss_vis, ss_srf, vis_steps, srf_steps, pres>>
    /\ UNCHANGED <<faceVars, vertVars, subVars, isoVars, neighVars>>

\* lines 321-334: of the intersections isect with the sides usable, those
\* ahead of p1 along projdir, and the nearest of them.
FallbackNear(isect, usable, p1, projdir) ==
    {e \in usable : Ahead(DistAlong(isect[e], p1, projdir), DefaultAtolInv)}

FallbackFirst(isect, near, p1, projdir) ==
    {e \in near :
        \A o \in near : RLeq(DistAlong(isect[e], p1, projdir), DistAlong(isect[o], p1, projdir))}

\* lines 319-339: what the search over all the sides of the mesh yields,
\* from the point p1 the walk has reached, out of the triangle tid0 and
\* along projdir: the point and the triangle the walk resumes with, or brk
\* where the loop is left.  all_edges is in the order of a dict's keys and
\* list(set) in the order of a set: of equally near sides, and of the two
\* triangles of a side, any may be the one taken.
FallbackResume(isect, first, tid0) ==
    {[pt |-> isect[et[1]], tid |-> et[2], brk |-> FALSE] :
        et \in {x \in first \X DOMAIN pmesh.tris : x[2] \in edge_idx[x[1]] \ {tid0}}}

FallbackChoice(isect, usable, near, p1, tid0, projdir) ==
    IF usable = {} THEN {[pt |-> p1, tid |-> NoTid, brk |-> TRUE]}
    ELSE IF near = {} THEN {[pt |-> Pt0, tid |-> NextTid, brk |-> NextTid = NoTid]}
    ELSE FallbackResume(isect, FallbackFirst(isect, near, p1, projdir), tid0)

FallbackAmong(isect, usable, p1, tid0, projdir) ==
    FallbackChoice(isect, usable, FallbackNear(isect, usable, p1, projdir), p1, tid0, projdir)

FallbackOutcomes(isect, p1, tid0, projdir) ==
    FallbackAmong(isect, {e \in DOMAIN edge_idx : isect[e] # NaNPt /\ edge_idx[e] # {tid0}},
                  p1, tid0, projdir)

\* lines 285-344, no triangle on the other side: the running sub-path is
\* closed and the walk resumes where the search over all sides says, or the
\* loop is left.
WalkFallback ==
    /\ ppc = "while"
    /\ ~point_in_triangle(TriPts(pmesh, tid), NextPt)
    /\ \E isect \in {LocalIsect(pmesh, tid, pt, NextPt)} :
       \E k \in {LocalNearest(isect, pt, PSub(NextPt, pt))} :
          /\ CrossInto(pmesh, edge_idx, tid, k) = NoTid
          /\ \E o \in FallbackOutcomes(AllIsect(pmesh, edge_idx, Pt0, NextPt),
                                        IF k = 0 THEN pt ELSE isect[k],
                                        tid, PSub(NextPt, pt)) :
                /\ pt' = o.pt
                /\ tid' = o.tid
                /\ IF o.brk
                   THEN pidx' = pidx + 1 /\ ppc' = "for"
                   ELSE UNCHANGED <<pidx, ppc>>
    /\ steps' = Keep(steps, ss)
    /\ ss' = <<>>
    /\ UNCHANGED <<pmask, pth, return_all, pmesh, edge_idx, tids,
                   uidx, xidx, nfail, ss_vis, ss_srf, vis_steps, srf_steps, pres>>
    /\ UNCHANGED <<faceVars, vertVars, subVars, isoVars, neighVars>>

\* line 348: no sub-path has come of the walk.
RaiseNoTriangles ==
    /\ ppc = "for"
    /\ pidx > Len(pth)
    /\ Len(steps) = 0
    /\ pres' = [kind |-> "ValueError", what |-> "No triangles found intersecting path!"]
    /\ ppc' = "done"
    /\ UNCHANGED <<pmask, pth, return_all, pmesh, edge_idx, tids, pidx, tid, pt, ss, steps,
                   uidx, xidx, nfail, ss_vis, ss_srf, vis_steps, srf_steps>>
    /\ UNCHANGED <<faceVars, vertVars, subVars, isoVars, neighVars>>

\* lines 350-354: the mapping starts with the first sub-path.
MapBegin ==
    /\ ppc = "for"
    /\ pidx > Len(pth)
    /\ Len(steps) > 0
    /\ vis_steps' = <<>> /\ srf_steps' = <<>>
    /\ ss_vis' = <<>> /\ ss_srf' = <<>>
    /\ uidx' = 1 /\ xidx' = 1
    /\ ppc' = "map"
    /\ UNCHANGED <<pmask, pth, return_all, pmesh, edge_idx, tids, pidx, tid, pt, ss, steps,
                   nfail, pres>>
    /\ UNCHANGED <<faceVars, vertVars, subVars, isoVars, neighVars>>

\* lines 355-372: one point of a sub-path.  address and unaddress yield its
\* surface point or fail; a failure closes the mapped sub-path.  After the
\* last point of a sub-path the mapped sub-path is closed (lines 368-372)
\* and the next begins (lines 353-354).
MapPoint ==
    /\ ppc = "map"
    /\ \E ok \in BOOLEAN :
          /\ ok => container(pmesh, steps[uidx][xidx]) # NoTid
          /\ ~ok => nfail < MaxMapFail
          /\ nfail' = IF ok THEN nfail ELSE nfail + 1
          /\ \E v  \in {IF ok THEN Append(ss_vis, steps[uidx][xidx]) ELSE <<>>},
                s  \in {IF ok
                        THEN Append(ss_srf, unaddress(pmesh, address(pmesh, steps[uidx][xidx])))
                        ELSE <<>>},
                vs \in {IF ~ok /\ LongEnough(ss_vis) THEN Append(vis_steps, ss_vis)
                        ELSE vis_steps},
                sf \in {IF ~ok /\ LongEnough(ss_vis) THEN Append(srf_steps, ss_srf)
                        ELSE srf_steps} :
                IF xidx = Len(steps[uidx])
                THEN /\ vis_steps' = (IF LongEnough(v) THEN Append(vs, v) ELSE vs)
                     /\ srf_steps' = (IF LongEnough(v) THEN Append(sf, s) ELSE sf)
                     /\ ss_vis' = <<>> /\ ss_srf' = <<>>
                     /\ uidx' = uidx + 1 /\ xidx' = 1
                     /\ ppc' = IF uidx = Len(steps) THEN "sum" ELSE "map"
                ELSE /\ vis_steps' = vs /\ srf_steps' = sf
                     /\ ss_vis' = v /\ ss_srf' = s
                     /\ xidx' = xidx + 1
                     /\ UNCHANGED <<uidx, ppc>>
    /\ UNCHANGED <<pmask, pth, return_all, pmesh, edge_idx, tids, pidx, tid, pt, ss, steps, pres>>
    /\ UNCHANGED <<faceVars, vertVars, subVars, isoVars, neighVars>>

\* lines 375-380 with no mapped sub-path: np.hstack of an empty list.
RaiseHstack ==
    /\ ppc = "sum"
    /\ Len(srf_steps) = 0
    /\ pres' = [kind |-> "ValueError", what |-> "need at least one array to concatenate"]
    /\ ppc' = "done"
    /\ UNCHANGED <<pmask, pth, return_all, pmesh, edge_idx, tids, pidx, tid, pt, ss, steps,
                   uidx, xidx, nfail, ss_vis, ss_srf, vis_steps, srf_steps>>
    /\ UNCHANGED <<faceVars, vertVars, subVars, isoVars, neighVars>>

\* The points of a sub-path are all one point: its length is 0.
NoLength(q) == \A n \in DOMAIN q : q[n] = q[1]

\* lines 375-385: the sub-paths, or the ratio of the length of the surface
\* sub-paths to the length of the visual sub-paths, +infinity where the
\* latter is 0.  The lengths are not evaluated: the ratio is of the length
\* of srf to the length of vis.
PathReturn ==
    /\ ppc = "sum"
    /\ Len(srf_steps) > 0
    /\ pres' = IF return_all
               THEN [kind |-> "paths", srf |-> srf_steps, vis |-> vis_steps]
               ELSE [kind |-> "ratio", srf |-> srf_steps, vis |-> vis_steps,
                     inf |-> \A i \in DOMAIN vis_steps : NoLength(vis_steps[i])]
    /\ ppc' = "done"
    /\ UNCHANGED <<pmask, pth, return_all, pmesh, edge_idx, tids, pidx, tid, pt, ss, steps,
                   uidx, xidx, nfail, ss_vis, ss_srf, vis_steps, srf_steps>>
    /\ UNCHANGED <<faceVars, vertVars, subVars, isoVars, neighVars>>

PathNext ==
    \/ PathStart
    \/ PathFor
    \/ WalkArrive
    \/ WalkCross
    \/ WalkFallback
    \/ RaiseNoTriangles
    \/ MapBegin
    \/ MapPoint
    \/ RaiseHstack
    \/ PathReturn

SpecPath == PathInit /\ [][PathNext]_vars

\* The error of line 348.
NoTrianglesError == [kind |-> "ValueError", what |-> "No triangles found intersecting path!"]

\* C1: whenever no sub-path survives, be it that the walk collects none or
\* that none of those it collects survives the address/unaddress mapping,
\* path_cortical_magnification fails with the error 'No triangles found
\* intersecting path!', with return_all and without; it returns no empty
\* list of sub-paths and fails with no other error.
C1_NoSubPathIsNoTriangles ==
    ppc = "done" =>
        /\ Len(vis_steps) = 0 => pres = NoTrianglesError
        /\ pres.kind = "paths" => (Len(pres.vis) > 0 /\ Len(pres.srf) > 0)
        /\ pres.kind = "ValueError" => pres = NoTrianglesError

\* What does hold: the error of line 348 is raised when the walk collects no
\* sub-path, and no empty list is returned.
NoStepsIsNoTriangles ==
    ppc = "done" =>
        /\ Len(steps) = 0 <=> pres = NoTrianglesError
        /\ pres.kind \in {"paths", "ratio"} => (Len(pres.vis) > 0 /\ Len(pres.srf) > 0)

\* Where the walk collects sub-paths and the mapping keeps none of them, the
\* call fails in np.hstack (line 379), with return_all and without.
NoMappedIsHstackError ==
    (ppc = "done" /\ Len(steps) > 0 /\ Len(vis_steps) = 0) =>
        pres = [kind |-> "ValueError", what |-> "need at least one array to concatenate"]

\* The lists srf and vis of sub-paths are parallel, their sub-paths of two
\* points at least.
Parallel(srf, vis) ==
    /\ Len(srf) = Len(vis)
    /\ \A i \in DOMAIN vis : Len(srf[i]) = Len(vis[i]) /\ Len(vis[i]) >= 2

\* C2: every sub-path path_cortical_magnification returns with return_all
\* has two points at least, there are as many surface sub-paths as visual
\* sub-paths, and the i-th of the one has as many points as the i-th of the
\* other, whatever the walk steps, breaks, fallback searches and mapping
\* failures; the same holds of the sub-paths of the walk and of the sub-paths
\* mapped so far.
C2_SubPathsParallel ==
    /\ \A i \in DOMAIN steps : Len(steps[i]) >= 2
    /\ Parallel(srf_steps, vis_steps)
    /\ Len(ss_srf) = Len(ss_vis)
    /\ (ppc = "done" /\ pres.kind = "paths") => Parallel(pres.srf, pres.vis)

\* C2's case: two sub-paths are returned after a mapping failure, and a
\* point of them is a crossing point of the walk, not a point of the path.
C2_Witness ==
    /\ ppc = "done"
    /\ return_all
    /\ pres.kind = "paths"
    /\ nfail > 0
    /\ Len(pres.vis) >= 2
    /\ \E i \in DOMAIN pres.vis : \E n \in DOMAIN pres.vis[i] : pres.vis[i][n] \notin Range(pth)

-----------------------------------------------------------------------------
(* neighborhood_cortical_magnification(mesh, coordinates), lines 131-205.  *)
(* A visual coordinate is a pair <<x, y>>, each of x and y a rational,     *)
(* numpy.nan or None.  The surface is flat, so that areas are rational.    *)

\* What the result holds for a value that is missing (numpy.nan, lines
\* 143-145 and 186) and for +infinity (lines 163 and 191).
Missing == [kind |-> "nan"]

Infinite == [kind |-> "inf"]

RAbs(x) == <<Abs(x[1]), x[2]>>

\* lines 22-24: x and y are numbers and neither is numpy.nan.
CoordDefined(c) == IsNumber(c[1]) /\ IsNumber(c[2]) /\ c[1] # NaN /\ c[2] # NaN

\* lines 20-24: the vertices whose visual coordinate is defined, in order.
cmag_coord_idcs(coords) ==
    Take([i \in 1..Len(coords) |-> i], {i \in 1..Len(coords) : CoordDefined(coords[i])},
         Len(coords))

\* line 152: a coordinate of a neighbour is None or numpy.nan.
NeighbourUndefined(coords, nei) ==
    \E j \in DOMAIN nei : \E u \in Range(coords[nei[j]]) : u = None \/ u = NaN

\* lines 157-158: the neighbours, each moved half the way to x0.
Voronoi(coords, nei, x0) ==
    [j \in DOMAIN nei |-> PAdd(PScale(RHalf, PSub(coords[nei[j]], x0)), x0)]

\* neuropythy.geometry.triangle_area of three points of the plane.
TriangleAreaPt(x0, a, b) == RMul(RHalf, RAbs(CrossP(PSub(a, x0), PSub(b, x0))))

\* lines 159-162: the areas of the triangles (x0, v[j], v[j - 1]), summed;
\* np.roll(v, 1) puts the last point before the first.
RECURSIVE FanArea(_, _, _)
FanArea(x0, v, n) ==
    IF n = 0 THEN RZero
    ELSE RAdd(FanArea(x0, v, n - 1),
              TriangleAreaPt(x0, v[n], v[IF n = 1 THEN Len(v) ELSE n - 1]))

\* line 163.
ArealOf(area_srf, area_vis) ==
    IF area_vis = RZero THEN Infinite
    ELSE [kind |-> "number", val |-> RDiv(area_srf, area_vis)]

\* neuropythy.geometry.line_segment_intersection_2D((p, p + r), (a, a + s)):
\* the point of the segment on the line, or NaNPt where the two are parallel
\* or the line passes the segment by.  r x s = den and (a - p) x r = un.
LineMeetsAt(a, s, den, un) ==
    IF den = RZero THEN NaNPt
    ELSE IF Between01(RDiv(un, den)) THEN PAdd(a, PScale(RDiv(un, den), s))
    ELSE NaNPt

LineMeets(a, s, e, r) == LineMeetsAt(a, s, CrossP(r, s), CrossP(e, r))

line_segment_intersection_2D(p, r, a, b) == LineMeets(a, PSub(b, a), PSub(a, p), r)

\* lines 168-169: the end of the side j of a polygon of n points.
NextOf(j, n) == (j % n) + 1

\* lines 180-182: the intersections of the line through x0 along dir with
\* the sides of the polygon v, and the sides that have one.
LineIsects(v, x0, dir) ==
    [j \in DOMAIN v |-> line_segment_intersection_2D(x0, dir, v[j], v[NextOf(j, Len(v))])]

IsectIdcs(isects) == Sorted({j \in DOMAIN isects : isects[j] # NaNPt})

\* A mutant of TwoCrossings: two crossings or more.
TwoCrossingsOrMore(isect_idcs) == Len(isect_idcs) >= 2

\* line 185: the line crosses two sides of the polygon.
TwoCrossings(isect_idcs) == Len(isect_idcs) = 2

\* lines 196-201: the point of the surface polygon vs the same part of the
\* way along its side j as the point x is along the side j of vv.  The
\* quotient of the two lengths is the quotient of either coordinate.
FractionAlong(a, b, x) ==
    IF a[1] # b[1] THEN RDiv(RSub(x[1], a[1]), RSub(b[1], a[1]))
    ELSE RDiv(RSub(x[2], a[2]), RSub(b[2], a[2]))

ProjectToSrf(vv, vs, j, x) ==
    PAdd(PScale(FractionAlong(vv[j], vv[NextOf(j, Len(vv))], x),
                PSub(vs[NextOf(j, Len(vs))], vs[j])),
         vs[j])

\* lines 185-203: the magnification along one direction.  The lengths are
\* not evaluated: "ratio" is the sum of the distances of the points srf from
\* x0_srf over the distance between the two points vis.
DirectionFrom(vv, vs, x0_srf, isects, idc) ==
    IF ~TwoCrossings(idc) THEN Missing
    ELSE IF isects[idc[1]] = isects[idc[2]] THEN Infinite
    ELSE [kind |-> "ratio",
          vis  |-> <<isects[idc[1]], isects[idc[2]]>>,
          srf  |-> <<ProjectToSrf(vv, vs, idc[1], isects[idc[1]]),
                     ProjectToSrf(vv, vs, idc[2], isects[idc[2]])>>,
          from |-> x0_srf]

DirectionOf(vv, vs, x0_srf, isects) ==
    DirectionFrom(vv, vs, x0_srf, isects, IsectIdcs(isects))

\* lines 174-175: the radial and the tangential direction at x0.  dirvecs
\* has them of length 1; the line through x0 is the same.
DirVecs(x0) == <<x0, <<RNeg(x0[2]), x0[1]>>>>

\* lines 172-203: radial and tangential; both stay missing at the origin.
RadTanOf(vv, vs, x0_vis, x0_srf) ==
    IF x0_vis = <<RZero, RZero>> THEN <<Missing, Missing>>
    ELSE [dirno \in 1..2 |->
             DirectionOf(vv, vs, x0_srf, LineIsects(vv, x0_vis, DirVecs(x0_vis)[dirno]))]

\* lines 153-203: the row of the result of one vertex.
RowFrom(vv, vs, x0_vis, x0_srf) ==
    RadTanOf(vv, vs, x0_vis, x0_srf)
    \o <<ArealOf(FanArea(x0_srf, vs, Len(vs)), FanArea(x0_vis, vv, Len(vv)))>>

RowOf(coords_vis, coords_srf, nei, idx) ==
    RowFrom(Voronoi(coords_vis, nei, coords_vis[idx]),
            Voronoi(coords_srf, nei, coords_srf[idx]),
            coords_vis[idx], coords_srf[idx])

\* The mesh: a fan of four faces around vertex 1, and vertex 6 beyond the
\* side of vertices 2 and 3.  mesh.tess.indexed_neighborhoods has the
\* neighbours of each vertex in the order they lie around it.
NeighNeis ==
    << <<2, 3, 4, 5>>, <<5, 1, 3, 6>>, <<6, 2, 1, 4>>, <<3, 1, 5>>, <<4, 1, 2>>, <<2, 3>> >>

NeighSrf == <<Pt(6, 4), Pt(10, 2), Pt(10, 10), Pt(2, 10), Pt(2, 2), Pt(14, 6)>>

\* The visual coordinates a vertex may have: one of two points, or an
\* undefined x (numpy.nan) or y (None).
NeighPts ==
    << {Pt(3, 2), Pt(3, 3)}, {Pt(5, 1), Pt(6, 1)}, {Pt(5, 5), Pt(5, 6)},
       {Pt(1, 5), Pt(2, 5)}, {Pt(1, 1), Pt(0, 0)}, {Pt(7, 3), Pt(7, 4)} >>

NeighCoords(v) == NeighPts[v] \cup {<<NaN, RInt(1)>>, <<RInt(1), None>>}

NeighInit ==
    /\ npc = "start"
    /\ nvis \in {c \in [1..Len(NeighNeis) -> UNION {NeighCoords(v) : v \in 1..Len(NeighNeis)}] :
                    \A v \in 1..Len(NeighNeis) : c[v] \in NeighCoords(v)}
    /\ nidcs = <<>> /\ nk = 0 /\ nres = <<>>
    /\ FaceIdle
    /\ VertIdle
    /\ SubIdle
    /\ IsoIdle
    /\ PathIdle

\* lines 139-145: idcs, and a result that is missing everywhere.
NeighStart ==
    /\ npc = "start"
    /\ nidcs' = cmag_coord_idcs(nvis)
    /\ nres' = [v \in 1..Len(NeighNeis) |-> <<Missing, Missing, Missing>>]
    /\ nk' = 1
    /\ npc' = "loop"
    /\ UNCHANGED nvis
    /\ UNCHANGED <<faceVars, vertVars, subVars, isoVars, pathVars>>

\* lines 146-152: a vertex with an undefined neighbour is passed over.
NeighSkip ==
    /\ npc = "loop"
    /\ nk <= Len(nidcs)
    /\ NeighbourUndefined(nvis, NeighNeis[nidcs[nk]])
    /\ nk' = nk + 1
    /\ UNCHANGED <<npc, nvis, nidcs, nres>>
    /\ UNCHANGED <<faceVars, vertVars, subVars, isoVars, pathVars>>

\* lines 146-203: the row of a vertex whose neighbours are all defined.
NeighVertex ==
    /\ npc = "loop"
    /\ nk <= Len(nidcs)
    /\ ~NeighbourUndefined(nvis, NeighNeis[nidcs[nk]])
    /\ nres' = [nres EXCEPT ![nidcs[nk]] = RowOf(nvis, NeighSrf, NeighNeis[nidcs[nk]], nidcs[nk])]
    /\ nk' = nk + 1
    /\ UNCHANGED <<npc, nvis, nidcs>>
    /\ UNCHANGED <<faceVars, vertVars, subVars, isoVars, pathVars>>

\* line 205.
NeighReturn ==
    /\ npc = "loop"
    /\ nk > Len(nidcs)
    /\ npc' = "done"
    /\ UNCHANGED <<nvis, nidcs, nk, nres>>
    /\ UNCHANGED <<faceVars, vertVars, subVars, isoVars, pathVars>>

NeighNext == NeighStart \/ NeighSkip \/ NeighVertex \/ NeighReturn

SpecNeigh == NeighInit /\ [][NeighNext]_vars

-----------------------------------------------------------------------------
(* Claims about neighborhood_cortical_magnification.                       *)

NeighVerts == 1..Len(NeighNeis)

\* The vertex v or one of its neighbours has an undefined visual coordinate.
UndefinedAround(v) ==
    ~CoordDefined(nvis[v]) \/ \E j \in DOMAIN NeighNeis[v] : ~CoordDefined(nvis[NeighNeis[v][j]])

\* The side of the line through x0 along dir that the point a lies on.
SideOfLine(x0, dir, a) == RSign(CrossP(dir, PSub(a, x0)))

\* The line crosses the side (a, b): the ends are not strictly on one side
\* of it, and the side does not lie along it.
CrossesSide(x0, dir, a, b) ==
    /\ SideOfLine(x0, dir, a) * SideOfLine(x0, dir, b) <= 0
    /\ ~(SideOfLine(x0, dir, a) = 0 /\ SideOfLine(x0, dir, b) = 0)

HalfwayTo(v, u) == PAdd(PScale(RHalf, PSub(nvis[u], nvis[v])), nvis[v])

\* The sides of the polygon around v that the line of direction dirno (1 the
\* radial, 2 the tangential) crosses.
CrossedSides(v, dirno) ==
    {j \in DOMAIN NeighNeis[v] :
        CrossesSide(nvis[v],
                    IF dirno = 1 THEN nvis[v] ELSE <<RNeg(nvis[v][2]), nvis[v][1]>>,
                    HalfwayTo(v, NeighNeis[v][j]),
                    HalfwayTo(v, NeighNeis[v][NextOf(j, Len(NeighNeis[v]))]))}

\* C11: the result has one record of three values for every vertex of the
\* mesh.  All three are missing where the visual coordinate of the vertex or
\* of one of its neighbours is undefined; the radial and the tangential are
\* missing for a vertex at the origin of the visual field; the value of a
\* direction is missing where its line does not cross exactly two sides of
\* the polygon.  The other vertices and directions are computed all the
\* same: their values are not missing.
C11_MissingWherePreconditionFails ==
    npc = "done" =>
        /\ DOMAIN nres = NeighVerts
        /\ \A v \in NeighVerts :
              /\ Len(nres[v]) = 3
              /\ UndefinedAround(v) =>
                    \A i \in 1..3 : nres[v][i] = Missing
              /\ ~UndefinedAround(v) =>
                    /\ nres[v][3].kind # "nan"
                    /\ \A dirno \in 1..2 :
                          nres[v][dirno].kind = "nan"
                              <=> \/ nvis[v] = <<RZero, RZero>>
                                  \/ Cardinality(CrossedSides(v, dirno)) # 2

\* A result with a vertex that is undefined, a vertex next to it, a vertex
\* at the origin, a vertex with a direction that does not cross two sides
\* and a direction of a vertex that has a value.
C11_Witness ==
    /\ npc = "done"
    /\ \E v \in NeighVerts : ~CoordDefined(nvis[v])
    /\ \E v \in NeighVerts : CoordDefined(nvis[v]) /\ UndefinedAround(v)
    /\ \E v \in NeighVerts :
          ~UndefinedAround(v) /\ nvis[v] = <<RZero, RZero>> /\ nres[v][3].kind = "number"
    /\ \E v \in NeighVerts : \E dirno \in 1..2 :
          /\ ~UndefinedAround(v) /\ nvis[v] # <<RZero, RZero>>
          /\ Cardinality(CrossedSides(v, dirno)) > 2
          /\ nres[v][dirno] = Missing
    /\ \E v \in NeighVerts : \E dirno \in 1..2 : nres[v][dirno].kind = "ratio"

-----------------------------------------------------------------------------
(* Claims about the straddling triangles of isoangular_path and their      *)
(* adjacency (lines 450-470).                                              *)

\* The sign, -1, 0 or 1, of the value of vertex u less the level.
SignAt(u) == RSign(RSub(ivals[u], ival))

NumbersOnly == \A v \in DOMAIN ivals : ivals[v] # NaN

\* The triangles lines 453-454 found straddling: the keys of cls (line 473).
Found == DOMAIN cls

SignsDiffer(t) ==
    \E a \in 1..3 : \E b \in 1..3 : SignAt(itris[t][a]) # SignAt(itris[t][b])

\* C12: a triangle is straddling exactly when the signs of (value - level)
\* at its three vertices, each -1, 0 or 1, are not all equal; a triangle
\* with one vertex at the level and the other two strictly above it is
\* straddling.
C12_StraddlingIffSignsDiffer ==
    (ipc = "union" /\ NumbersOnly) =>
        \A t \in DOMAIN itris : t \in Found <=> SignsDiffer(t)

\* What does hold: a triangle is straddling exactly when one of its vertices
\* is strictly below the level and another is at the level or above it.
StraddlingIffBelowAndNotBelow ==
    (ipc = "union" /\ NumbersOnly) =>
        \A t \in DOMAIN itris :
            t \in Found <=> /\ \E a \in 1..3 : SignAt(itris[t][a]) = -1
                            /\ \E b \in 1..3 : SignAt(itris[t][b]) >= 0

\* A triangle with one vertex at the level and two above it that was found
\* straddling: never reached.
TouchingFromAboveFound ==
    /\ ipc = "union" /\ NumbersOnly
    /\ \E t \in Found :
          /\ \E a \in 1..3 : SignAt(itris[t][a]) = 0
          /\ \A a \in 1..3 : SignAt(itris[t][a]) >= 0


\* The vertices u and v are both of triangle t.
SideOf(t, u, v) == u # v /\ {u, v} \subseteq Range(itris[t])

\* The ends of a side lie on different sides of the level.
AcrossLevel(u, v) == SignAt(u) * SignAt(v) = -1

AdjacentTo(t) == {k \in Found : <<t, k>> \in DOMAIN tadj}

AtMostTwoAdjacent == \A t \in Found : Cardinality(AdjacentTo(t)) <= 2

\* C13: any two distinct straddling triangles that share a side whose ends
\* lie on different sides of the level are in the adjacency in both
\* directions, mapped to that side, however the triangles list their
\* vertices and in whatever order they are processed; and a straddling
\* triangle is adjacent to at most two others.
C13_AdjacencyComplete ==
    (ipc = "union" /\ NumbersOnly) =>
        /\ \A t \in Found : \A k \in Found \ {t} :
              \A u \in Range(itris[t]) : \A v \in Range(itris[t]) :
                  (SideOf(t, u, v) /\ SideOf(k, u, v) /\ AcrossLevel(u, v)) =>
                      /\ <<t, k>> \in DOMAIN tadj
                      /\ <<k, t>> \in DOMAIN tadj
                      /\ Range(tadj[<<t, k>>]) = {u, v}
                      /\ Range(tadj[<<k, t>>]) = {u, v}
        /\ AtMostTwoAdjacent

\* What does hold: the adjacency is symmetric, each of its pairs is mapped
\* to a side the two triangles share whose ends lie across the level, and
\* no triangle is adjacent to more than two others.
AdjacencySound ==
    (ipc = "union" /\ NumbersOnly) =>
        /\ \A p \in DOMAIN tadj :
              /\ p[1] \in Found /\ p[2] \in Found /\ p[1] # p[2]
              /\ <<p[2], p[1]>> \in DOMAIN tadj
              /\ tadj[<<p[2], p[1]>>] = tadj[p]
              /\ SideOf(p[1], tadj[p][1], tadj[p][2])
              /\ SideOf(p[2], tadj[p][1], tadj[p][2])
              /\ AcrossLevel(tadj[p][1], tadj[p][2])
        /\ AtMostTwoAdjacent

\* What does hold of a shared side across the level that one triangle lists
\* as (first, second) or (second, third) and the other as (first, third),
\* or the reverse: the two are adjacent.  PairOrder is the order in which
\* lines 458-459 pair the vertices of t: the lower position first.
PairOrder(t, u, v) ==
    \E a \in 1..3 : \E b \in 1..3 : a < b /\ itris[t][a] = u /\ itris[t][b] = v

AdjacencyOfOpposedSides ==
    (ipc = "union" /\ NumbersOnly) =>
        \A t \in Found : \A k \in Found \ {t} :
            \A u \in Range(itris[t]) : \A v \in Range(itris[t]) :
                (PairOrder(t, u, v) /\ PairOrder(k, v, u) /\ AcrossLevel(u, v)) =>
                    <<t, k>> \in DOMAIN tadj /\ <<k, t>> \in DOMAIN tadj

-----------------------------------------------------------------------------
(* Claims about the walk of path_cortical_magnification (lines 285-344).   *)

\* The walk is in its loop and next_pt is not in the current triangle.
Walking == ppc = "while" /\ ~point_in_triangle(TriPts(pmesh, tid), NextPt)

\* Where the travel segment from p meets the side k of the triangle t.
MeetsSide(t, k, p) ==
    segment_intersection_2D(p, NextPt, pmesh.vis[pmesh.tris[t][k]],
                            pmesh.vis[pmesh.tris[t][(k % 3) + 1]])

\* How far along the travel direction the point x lies beyond pt.
AheadBy(x) == Dot(PSub(x, pt), PSub(NextPt, pt))

\* The side k of the current triangle is met strictly ahead of pt, beyond
\* the tolerance atol, and no side is met ahead nearer than it.
NearestForward(k) ==
    /\ MeetsSide(tid, k, pt) # NaNPt
    /\ Ahead(AheadBy(MeetsSide(tid, k, pt)), AtolInv)
    /\ \A j \in 1..3 :
          (MeetsSide(tid, j, pt) # NaNPt /\ Ahead(AheadBy(MeetsSide(tid, j, pt)), AtolInv))
              => RLeq(AheadBy(MeetsSide(tid, k, pt)), AheadBy(MeetsSide(tid, j, pt)))

\* The sides the walk may cross into another triangle by.
ForwardSides ==
    {k \in 1..3 : NearestForward(k) /\ edge_idx[TriEdges(pmesh.tris[tid])[k]] # {tid}}

\* A step that crosses the side k: the walk is at the crossing point, in the
\* triangle on the other side, and the point has joined the sub-path.
CrossedBy(k) ==
    /\ pt' = MeetsSide(tid, k, pt)
    /\ tid' \in edge_idx[TriEdges(pmesh.tris[tid])[k]] \ {tid}
    /\ ss' = Append(ss, pt')
    /\ steps' = steps
    /\ ppc' = "while"

\* The walk resumes at a point of a side that is not a side of the
\* triangle tid0, in a triangle of that side.
ResumedOffTriangle(tid0) ==
    \E e \in DOMAIN edge_idx \ Range(TriEdges(pmesh.tris[tid0])) :
        /\ pt' = segment_intersection_2D(Pt0, NextPt, pmesh.vis[e[1]], pmesh.vis[e[2]])
        /\ tid' \in edge_idx[e]

\* A step that closes the running sub-path and then either leaves the loop,
\* or goes to the triangle of next_pt, or resumes where the search over the
\* sides that are not of the triangle just left says.
FellBack ==
    /\ ss' = <<>>
    /\ steps' = Keep(steps, ss)
    /\ \/ ppc' = "for" /\ pidx' = pidx + 1
       \/ ppc' = "while" /\ pt' = Pt0 /\ tid' = NextTid
       \/ ppc' = "while" /\ ResumedOffTriangle(tid)

\* C14: while next_pt is not in the current triangle, a step of the walk
\* goes to the nearest intersection of the travel segment with the sides of
\* the triangle that is ahead of pt beyond the tolerance, enters the
\* triangle on the other side and appends the crossing point to the
\* running sub-path; where that side has no other triangle or no
\* intersection is ahead, the running sub-path is closed and the search
\* runs over the sides of the mesh that are not sides of the triangle left.
C14_WalkStep ==
    [][Walking =>
          IF \E k \in 1..3 : NearestForward(k)
          THEN (\E k \in ForwardSides : CrossedBy(k))
               \/ ((\E k \in 1..3 : NearestForward(k) /\ k \notin ForwardSides) /\ FellBack)
          ELSE FellBack]_vars

\* The walk resumes at a point of a side of no other triangle than tid0,
\* or of a side that tid0 shares with another triangle.
ResumedOffRim(tid0) ==
    \E e \in {x \in DOMAIN edge_idx : edge_idx[x] # {tid0}} :
        /\ pt' = segment_intersection_2D(Pt0, NextPt, pmesh.vis[e[1]], pmesh.vis[e[2]])
        /\ tid' \in edge_idx[e] \ {tid0}

FellBackOffRim ==
    /\ ss' = <<>>
    /\ steps' = Keep(steps, ss)
    /\ \/ ppc' = "for" /\ pidx' = pidx + 1
       \/ ppc' = "while" /\ pt' = Pt0 /\ tid' = NextTid
       \/ ppc' = "while" /\ ResumedOffRim(tid)

\* What does hold: the same, with a search that leaves out only the sides
\* that belong to no triangle but the one just left.
WalkStepOffRim ==
    [][Walking =>
          IF \E k \in 1..3 : NearestForward(k)
          THEN (\E k \in ForwardSides : CrossedBy(k))
               \/ ((\E k \in 1..3 : NearestForward(k) /\ k \notin ForwardSides)
                   /\ FellBackOffRim)
          ELSE FellBackOffRim]_vars


\* The statements of the function run one after the other: an iteration of
\* the loop of line 285 that can be taken is taken.
WalkNext == WalkArrive \/ WalkCross \/ WalkFallback

SpecPathFair == SpecPath /\ WF_vars(WalkNext)

\* How far along the travel segment, from pt0 towards next_pt, x lies.
Along(x) == Dot(PSub(x, Pt0), PSub(NextPt, Pt0))

\* An iteration of the loop of line 285 that stays in the loop has gone to a
\* triangle that holds next_pt, or has moved pt strictly forward.
IterationAdvances ==
    (Walking /\ ppc' = "while") =>
        /\ tid' # NoTid
        /\ \/ point_in_triangle(TriPts(pmesh, tid'), NextPt)
           \/ RLess(Along(pt), Along(pt'))

\* C15: the loop of line 285 ends for every pair of consecutive points of
\* the path: an iteration reaches a triangle that holds next_pt, leaves the
\* loop, or moves pt strictly forward along the travel segment, after a
\* resumption in a triangle that is not adjacent too; the walk does not stay
\* in the loop for ever.
C15_WalkTerminates ==
    /\ [][IterationAdvances]_vars
    /\ (ppc = "while") ~> (ppc # "while")

\* The walk has been resumed further along the segment, in a triangle that
\* shares no side with the triangle of pt0.
C15_Witness ==
    /\ ppc = "while"
    /\ ss = <<>>
    /\ RLess(RZero, Along(pt))
    /\ tid # tids[pidx]
    /\ \A e \in DOMAIN edge_idx : ~({tid, tids[pidx]} \subseteq edge_idx[e])

=============================================================================
